---------------------------- MODULE Spec2Model ----------------------------
(***************************************************************************)
(* A model of the ISS tracker of src/iss.py: the projection of a position  *)
(* on the 264 x 181 world map (Display.getXYFromLonLat), the rendering of  *)
(* the trajectory (Display.drawISS), the sampling / refresh loop (main)    *)
(* and the SIGINT handler (ctrl_c_handler).                                *)
(*                                                                         *)
(* Python's float is the IEEE-754 double.  The arithmetic the program does *)
(* on floats is modelled bit by bit (a 53-bit significand, round to        *)
(* nearest, ties to even), because truncating a rounded product is not     *)
(* truncating the exact one: (int)(75 * (264/360.0)) is 54, not 55.        *)
(* Positions are in whole degrees and the clock in whole seconds.          *)
(***************************************************************************)
EXTENDS Integers, Sequences, FiniteSets, TLC

VARIABLES
    DATA_INTERVAL,            \* seconds between two fetches
    BIG_DOT_INTERVAL,         \* seconds between two big dots
    DISPLAY_REFRESH_INTERVAL, \* fetches between two display updates
    MAX_ORBIT_TRACES,         \* << num, den >>: the decimal literal num/den
    pc,                       \* where main() is
    positions,                \* main's list of (lat, lon)
    now,                      \* time.time(), in seconds
    t0,                       \* main's t0
    sleepTime,                \* main's sleepTime
    gpio,                     \* the e-paper module: "unset", "setup", "cleaned"
    doubleCleanup,            \* the module was released while not set up
    frame,                    \* what the last drawISS returned
    framed,                   \* the len(positions) it was called with
    hour,                     \* the time.strftime("%H") it was called at
    renders,                  \* the sample counts at which the display was updated
    hpc,                      \* where ctrl_c_handler() is
    shutdown,                 \* what happened since SIGINT was delivered
    lat, lon, xy,             \* a position and the pixel computed for it
    prev                      \* the position and the pixel computed before it;
                              \* under SpecDraw the hour of the call before, if
                              \* that was given the same list

config == << DATA_INTERVAL, BIG_DOT_INTERVAL, DISPLAY_REFRESH_INTERVAL,
             MAX_ORBIT_TRACES >>
loop   == << pc, positions, now, t0, sleepTime, renders >>
epd    == << gpio, doubleCleanup >>
sig    == << hpc, shutdown >>
probe  == << lat, lon, xy, prev >>
image  == << frame, framed, hour >>
vars   == << config, loop, epd, image, sig, probe >>

---------------------------------------------------------------------------
(* Map / Geo constants *)

max_lon == 180

max_lat == 90

map_width == 264

map_height == 181

\* 90 * 60: the seconds of one orbit
ORBIT_SECONDS == 5400

\* half the width of the ISS logo, and the radii of the big and the small dot
ISS_HALF == 10

BIG_DOT == 3

SMALL_DOT == 1

---------------------------------------------------------------------------
(* IEEE-754 doubles.  A double is [s, m, e]: sign s, significand m as 53   *)
(* bits, least significant first, and exponent e: s * m * 2^e.  Zero has   *)
(* the empty significand.                                                  *)

Max(a, b) == IF a >= b THEN a ELSE b

Min(a, b) == IF a <= b THEN a ELSE b

\* the bits of a double's significand
MANT_BITS == 53

\* Long sequences of bits are worked on in limbs of LIMB_BITS bits.
LIMB_BITS == 5 + 5

RECURSIVE TwoTo(_)
TwoTo(n) == IF n = 0 THEN 1 ELSE 2 * TwoTo(n - 1)

\* the powers of two of a machine word, computed once
POWERS == [n \in 0..30 |-> TwoTo(n)]

Pow2(n) == POWERS[n]

LIMB == Pow2(LIMB_BITS)

RECURSIVE BitsOf(_)
\* the bits of n >= 0, without leading zeros
BitsOf(n) == IF n = 0 THEN << >> ELSE << n % 2 >> \o BitsOf(n \div 2)

RECURSIVE BitsVal(_, _, _)
\* the number the bits lo..hi of b stand for (a short stretch)
BitsVal(b, lo, hi) ==
    IF lo > hi THEN 0 ELSE b[lo] + 2 * BitsVal(b, lo + 1, hi)

Zeros(n) == [i \in 1..n |-> 0]

\* the c low bits of v
FixedBits(v, c) == [i \in 1..c |-> (v \div Pow2(i - 1)) % 2]

\* b in limbs, the last one filled up with zeros
LimbsOf(b) ==
    [j \in 1..((Len(b) + LIMB_BITS - 1) \div LIMB_BITS) |->
        BitsVal(b, (j - 1) * LIMB_BITS + 1,
                IF j * LIMB_BITS < Len(b) THEN j * LIMB_BITS ELSE Len(b))]

\* the bits of a sequence of limbs
BitsOfLimbs(l) ==
    [i \in 1..(LIMB_BITS * Len(l)) |->
        (l[(i - 1) \div LIMB_BITS + 1] \div Pow2((i - 1) % LIMB_BITS)) % 2]

\* b without its leading zeros
StripHigh(b) ==
    LET ones == {i \in 1..Len(b) : b[i] = 1} IN
    IF ones = {} THEN << >>
    ELSE SubSeq(b, 1, CHOOSE i \in ones : \A j \in ones : j <= i)

\* b + 1
IncBits(b) ==
    LET zeros == {i \in 1..Len(b) : b[i] = 0} IN
    IF zeros = {} THEN Zeros(Len(b)) \o << 1 >>
    ELSE LET z == CHOOSE i \in zeros : \A j \in zeros : i <= j
         IN  [i \in 1..Len(b) |-> IF i < z THEN 0 ELSE IF i = z THEN 1 ELSE b[i]]

FZero == [s |-> 1, m |-> << >>, e |-> 0]

\* The double nearest to s * b * 2^e (b a bit sequence without leading zeros;
\* sticky: something nonzero lies below b's lowest bit): round to nearest,
\* ties to even.
RoundBits(s, b, e, sticky) ==
    LET L == Len(b) IN
    IF L = 0 THEN FZero
    ELSE IF L <= MANT_BITS
    THEN [s |-> s, m |-> Zeros(MANT_BITS - L) \o b, e |-> e - (MANT_BITS - L)]
    ELSE LET d     == L - MANT_BITS
             kept  == SubSeq(b, d + 1, L)
             guard == b[d]
             rest  == sticky \/ \E i \in 1..(d - 1) : b[i] = 1
             up    == guard = 1 /\ (rest \/ kept[1] = 1)
             r     == IF up THEN IncBits(kept) ELSE kept
         IN  IF Len(r) > MANT_BITS
             THEN [s |-> s, m |-> SubSeq(r, 2, Len(r)), e |-> e + d + 1]
             ELSE [s |-> s, m |-> r, e |-> e + d]

\* float(n) of an integer n
FInt(n) ==
    RoundBits(IF n < 0 THEN -1 ELSE 1, BitsOf(IF n < 0 THEN -n ELSE n), 0, FALSE)

RECURSIVE ScaleUp(_, _)
\* the least k with a * 2^k >= b
ScaleUp(a, b) == IF a >= b THEN 0 ELSE 1 + ScaleUp(2 * a, b)

RECURSIVE DivBits(_, _, _)
\* n more quotient bits of r / b (r < b), least significant first, and the
\* remainder left; a limb at a time
DivBits(r, b, n) ==
    IF n = 0 THEN [q |-> << >>, r |-> r]
    ELSE LET c    == IF n < LIMB_BITS THEN n ELSE LIMB_BITS
             next == DivBits((r * Pow2(c)) % b, b, n - c)
         IN  [q |-> next.q \o FixedBits((r * Pow2(c)) \div b, c), r |-> next.r]

\* a / float(b), or float(a) / b, of integers a > 0 and b > 0: both scaled
\* to a quotient in [1, 2), then 53 more bits by long division
FDiv(a, b) ==
    LET k  == ScaleUp(a, b)
        j  == IF k > 0 THEN 0 ELSE ScaleUp(b, a + 1) - 1
        a1 == a * Pow2(k)
        b1 == b * Pow2(j)
        d  == DivBits(a1 - b1, b1, MANT_BITS)
    IN  RoundBits(1, d.q \o << 1 >>, j - k - MANT_BITS, d.r # 0)

RECURSIVE MulLimbs(_, _, _)
\* the limbs of l * k + carry, and the carry out of the last one
MulLimbs(l, k, carry) ==
    IF l = << >> THEN [q |-> << >>, c |-> carry]
    ELSE LET t    == k * l[1] + carry
             high == MulLimbs(Tail(l), k, t \div LIMB)
         IN  [q |-> << t % LIMB >> \o high.q, c |-> high.c]

\* the bits of b * k
MulBits(b, k) ==
    LET p == MulLimbs(LimbsOf(b), k, 0)
    IN  StripHigh(BitsOfLimbs(p.q) \o BitsOf(p.c))

\* k * f of an integer-valued double k and a double f
FMul(k, f) ==
    IF k = 0 \/ f.m = << >> THEN FZero
    ELSE RoundBits(IF k < 0 THEN -f.s ELSE f.s,
                   MulBits(f.m, IF k < 0 THEN -k ELSE k), f.e, FALSE)

RECURSIVE DivLimbs(_, _)
\* the quotient limbs and the remainder of l \div d
DivLimbs(l, d) ==
    IF l = << >> THEN [q |-> << >>, r |-> 0]
    ELSE LET high == DivLimbs(Tail(l), d)
             cur  == high.r * LIMB + l[1]
         IN  [q |-> << cur \div d >> \o high.q, r |-> cur % d]

\* f / d of a double f and an integer d > 0
FDivInt(f, d) ==
    IF f.m = << >> THEN FZero
    ELSE LET t   == Len(BitsOf(d)) + 1
             res == DivLimbs(LimbsOf(Zeros(t) \o f.m), d)
         IN  RoundBits(f.s, StripHigh(BitsOfLimbs(res.q)), f.e - t, res.r # 0)

\* a >= b of two bit sequences of one length
GeqBits(a, b) ==
    LET diff == {i \in 1..Len(a) : a[i] # b[i]} IN
    \/ diff = {}
    \/ a[CHOOSE i \in diff : \A j \in diff : j <= i] = 1

RECURSIVE SubLimbs(_, _, _)
\* a - b - borrow of two sequences of limbs of one length, a >= b
SubLimbs(a, b, borrow) ==
    IF a = << >> THEN << >>
    ELSE LET t == a[1] - b[1] - borrow
         IN  << t % LIMB >> \o SubLimbs(Tail(a), Tail(b), IF t < 0 THEN 1 ELSE 0)

\* a - b of two bit sequences of one length, a >= b
SubBits(a, b) == StripHigh(BitsOfLimbs(SubLimbs(LimbsOf(a), LimbsOf(b), 0)))

\* h - f of an integer h >= 0 and a double f >= 0 (f.e <= 0: f < 2^53)
FSub(h, f) ==
    IF f.m = << >> THEN FInt(h)
    ELSE LET hb == Zeros(-f.e) \o BitsOf(h)
             n  == IF Len(hb) > Len(f.m) THEN Len(hb) ELSE Len(f.m)
             a  == hb \o Zeros(n - Len(hb))
             b  == f.m \o Zeros(n - Len(f.m))
         IN  IF GeqBits(a, b)
             THEN RoundBits(1, SubBits(a, b), f.e, FALSE)
             ELSE RoundBits(-1, SubBits(b, a), f.e, FALSE)

RECURSIVE AddLimbs(_, _, _)
\* the limbs of a + b + carry of two sequences of limbs of one length, the
\* carry out of the last one as one more limb
AddLimbs(a, b, carry) ==
    IF a = << >> THEN << carry >>
    ELSE LET t == a[1] + b[1] + carry
         IN  << t % LIMB >> \o AddLimbs(Tail(a), Tail(b), t \div LIMB)

\* a + b of two bit sequences of one length
AddBits(a, b) == StripHigh(BitsOfLimbs(AddLimbs(LimbsOf(a), LimbsOf(b), 0)))

\* -f
FNeg(f) == IF f.m = << >> THEN f ELSE [f EXCEPT !.s = -f.s]

\* h + f of an integer h >= 0 and a double f >= 0 (f.e <= 0)
FAdd(h, f) ==
    IF f.m = << >> THEN FInt(h)
    ELSE LET hb == Zeros(-f.e) \o BitsOf(h)
             n  == IF Len(hb) > Len(f.m) THEN Len(hb) ELSE Len(f.m)
         IN  RoundBits(1, AddBits(hb \o Zeros(n - Len(hb)),
                                  f.m \o Zeros(n - Len(f.m))), f.e, FALSE)

\* h - f of an integer h >= 0 and a double f of either sign
FMinus(h, f) == IF f.s < 0 THEN FAdd(h, FNeg(f)) ELSE FSub(h, f)

\* a / b of an integer a > 0 and a double or integer b # 0 of either sign
FQuot(a, b) == IF b < 0 THEN FNeg(FDiv(a, -b)) ELSE FDiv(a, b)

\* f / d of a double f and an integer d # 0 of either sign
FQuotInt(f, d) == IF d < 0 THEN FNeg(FDivInt(f, -d)) ELSE FDivInt(f, d)

\* a mutant of FToInt: round to nearest instead of truncating
FToIntRound(f) ==
    IF f.m = << >> \/ -f.e > Len(f.m) THEN 0
    ELSE IF -f.e = Len(f.m) THEN f.s
    ELSE f.s * (BitsVal(f.m, 1 - f.e, Len(f.m))
                + (IF f.e < 0 THEN f.m[-f.e] ELSE 0))

\* (int)(f): the integer part, truncated toward zero
FToInt(f) ==
    IF f.m = << >> \/ -f.e >= Len(f.m) THEN 0
    ELSE f.s * BitsVal(f.m, 1 - f.e, Len(f.m))

\* f has a fractional part
FHasFraction(f) == \E i \in 1..Len(f.m) : i <= -f.e /\ f.m[i] = 1

\* i < f of an integer i and a double f
FLess(i, f) ==
    IF f.m = << >> THEN i < 0
    ELSE IF f.s = 1 THEN i < FToInt(f) \/ (i = FToInt(f) /\ FHasFraction(f))
    ELSE i < FToInt(f)

---------------------------------------------------------------------------
(* Display.getXYFromLonLat *)

\* map_width/float(max_lon*2)
hor_factor == FDiv(map_width, max_lon * 2)

\* map_height/float(max_lat*2)
ver_factor == FDiv(map_height, max_lat * 2)

\* (int)((lon + max_lon) * hor_factor)
pixelX(lo) == FToInt(FMul(lo + max_lon, hor_factor))

\* (int)(map_height - (lat + max_lat) * ver_factor)
pixelY(la) == FToInt(FSub(map_height, FMul(la + max_lat, ver_factor)))

\* a reading << lat, lon >> outside the geographic range
OffMap == << 95, 200 >>

\* pixelX and pixelY of the whole degrees of the map and of OffMap, computed
\* once
pixelXs == [lo \in (-max_lon)..max_lon \cup {OffMap[2]} |-> pixelX(lo)]

pixelYs == [la \in (-max_lat)..max_lat \cup {OffMap[1]} |-> pixelY(la)]

\* a mutant of getXYFromLonLat: the latitude not flipped
getXYNoFlip(la, lo) == << pixelXs[lo], map_height - pixelYs[la] >>

\* the pixel << x, y >> of a position in whole degrees on the map
getXYFromLonLat(la, lo) == << pixelXs[lo], pixelYs[la] >>

---------------------------------------------------------------------------
(* The bounds of the model *)

\* the fetches of one run of main
MaxSamples == 4

\* the largest DISPLAY_REFRESH_INTERVAL
MaxStride == 3

\* the positions of one list given to drawISS
MaxDrawn == 5

\* the degrees between two positions that are compared
MaxStep == 3

\* DATA_INTERVAL as written (30) and one shorter than a refresh
LoopIntervals == {20, 30}

\* DATA_INTERVAL set to what is no interval
BadIntervals == {0, -30}

\* MAX_ORBIT_TRACES in main: 1.0 as written, and 1/90 of an orbit, three
\* positions, with the interval of 20 s
LoopOrbits ==
    [d \in LoopIntervals \cup BadIntervals |->
        IF d = 20 THEN << 1, 90 >> ELSE << 1, 1 >>]

\* the seconds a fetch takes, and those epd.display takes ("a display
\* refresh takes about 15 to 19 seconds")
FetchSeconds == {1, 12}

RefreshSeconds == {17}

\* what the position provider answers: a position of the ISS, and numbers
\* that are none
Provided == {<< 51, -105 >>, OffMap}

\* time.strftime("%H")
Hours == {9, 22, 23}

\* the settings drawISS is tried under: [data, big, orbits]; the first is the
\* program's as written
DrawSettings ==
    {[data |-> 30, big |-> 900, orbits |-> << 1, 1 >>]}
    \cup {[data |-> d, big |-> 900, orbits |-> o] :
            d \in {35, 450, 540, 1800},
            o \in {<< 1, 1 >>, << 1, 4 >>, << 1, 10 >>}}
    \cup {[data |-> 30, big |-> b, orbits |-> o] :
            b \in {50, 75}, o \in {<< 1, 100 >>, << 1, 200 >>}}

\* the settings of either: every DATA_INTERVAL but 0, BIG_DOT_INTERVAL and
\* MAX_ORBIT_TRACES, and the longest list
Intervals ==
    {c.data : c \in DrawSettings} \cup LoopIntervals \cup (BadIntervals \ {0})

BigDotIntervals == {c.big : c \in DrawSettings}

OrbitTraces ==
    {c.orbits : c \in DrawSettings}
    \cup {LoopOrbits[d] : d \in LoopIntervals \cup BadIntervals}

MaxLen == Max(MaxSamples, MaxDrawn)

Lats == (-max_lat)..max_lat

Lons == (-max_lon)..max_lon

NoFrame == [black |-> [inverted |-> FALSE], red |-> << >>]

---------------------------------------------------------------------------
(* Display.drawISS *)

\* a mutant of bigDotStride: the quotient rounded to the nearest integer
bigDotStrideRounded(big, data) == Max(FToIntRound(FQuot(big, data)), 1)

\* max((int)(BIG_DOT_INTERVAL/DATA_INTERVAL),1) for every setting of the
\* model, computed once
bigDotStrides ==
    [big \in BigDotIntervals, data \in Intervals |->
        Max(FToInt(FQuot(big, data)), 1)]

\* max((int)(BIG_DOT_INTERVAL/DATA_INTERVAL),1), DATA_INTERVAL not 0
bigDotStride(big, data) == bigDotStrides[big, data]

\* len(positions) - (MAX_ORBIT_TRACES * (90 * 60) / DATA_INTERVAL) for n
\* positions, for every setting of the model, computed once
maxPositions ==
    [data \in Intervals, orbits \in OrbitTraces, n \in 0..MaxLen |->
        FMinus(n, FQuotInt(FMul(ORBIT_SECONDS, FDiv(orbits[1], orbits[2])),
                           data))]

\* len(positions) - (MAX_ORBIT_TRACES * (90 * 60) / DATA_INTERVAL) for n
\* positions, DATA_INTERVAL not 0
maxPositionsToDraw(n) == maxPositions[DATA_INTERVAL, MAX_ORBIT_TRACES, n]

\* a mutant of paint: the big dot decided before the newest position
paintBigFirst(ps, i, stride) ==
    LET p == getXYFromLonLat(ps[i + 1][1], ps[i + 1][2]) IN
    IF i % stride = 0
    THEN [i |-> i, kind |-> "big", s |-> BIG_DOT, x |-> p[1], y |-> p[2]]
    ELSE IF i = Len(ps) - 1
    THEN [i |-> i, kind |-> "iss", s |-> ISS_HALF, x |-> p[1], y |-> p[2]]
    ELSE [i |-> i, kind |-> "small", s |-> SMALL_DOT, x |-> p[1], y |-> p[2]]

\* what the loop body draws for positions[i] (i from 0, as in the code);
\* stride is max((int)(BIG_DOT_INTERVAL/DATA_INTERVAL),1)
paint(ps, i, stride) ==
    LET p == getXYFromLonLat(ps[i + 1][1], ps[i + 1][2]) IN
    IF i = Len(ps) - 1
    THEN [i |-> i, kind |-> "iss", s |-> ISS_HALF, x |-> p[1], y |-> p[2]]
    ELSE IF i % stride = 0
    THEN [i |-> i, kind |-> "big", s |-> BIG_DOT, x |-> p[1], y |-> p[2]]
    ELSE [i |-> i, kind |-> "small", s |-> SMALL_DOT, x |-> p[1], y |-> p[2]]

\* a mutant of leaveLoop: the break one position late
leaveLoopLate(i, limit) == FLess(i + 1, limit)

\* if(i < maxPositionsToDraw): break
leaveLoop(i, limit) == FLess(i, limit)

RECURSIVE drawFrom(_, _, _, _)
\* the loop over reversed(list(enumerate(positions))) from index i down
drawFrom(ps, i, limit, stride) ==
    IF i < 0 \/ leaveLoop(i, limit) THEN << >>
    ELSE << paint(ps, i, stride) >> \o drawFrom(ps, i - 1, limit, stride)

\* a mutant of drawISS: the map is never inverted
drawISSPlain(ps, h) ==
    [black |-> [inverted |-> FALSE],
     red   |-> CHOOSE red \in
                  {drawFrom(ps, Len(ps) - 1, limit, stride) :
                      limit \in {maxPositionsToDraw(Len(ps))},
                      stride \in {bigDotStride(BIG_DOT_INTERVAL, DATA_INTERVAL)}} :
                  TRUE]

\* the two images: the map (inverted in even hours) and, in the order they
\* are drawn, the marks of the red image.  The two numbers the loop works
\* with are computed once.
drawISS(ps, h) ==
    [black |-> [inverted |-> h % 2 = 0],
     red   |-> CHOOSE red \in
                  {drawFrom(ps, Len(ps) - 1, limit, stride) :
                      limit \in {maxPositionsToDraw(Len(ps))},
                      stride \in {bigDotStride(BIG_DOT_INTERVAL, DATA_INTERVAL)}} :
                  TRUE]

---------------------------------------------------------------------------
(* epdconfig and epd2in7b, as the comment of ctrl_c_handler describes them *)

\* epdconfig.module_init(): sets up GPIO (and SPI)
module_init(g) == "setup"

\* epdconfig.module_exit(): shuts off power to the module and calls
\* GPIO.cleanup()
module_exit(g) == "cleaned"

\* GPIO.cleanup() is called on a module that is not set up
cleanupTwice(g) == g # "setup"

---------------------------------------------------------------------------
(* main *)

Running == hpc = "none"

\* t0 = time.time()
StartCycle ==
    /\ Running /\ pc = "t0"
    /\ Len(positions) < MaxSamples
    /\ t0' = now
    /\ pc' = "get"
    /\ UNCHANGED << config, positions, now, sleepTime, renders, epd, image,
                    sig, probe >>

\* a mutant of Fetch: only the newest positions are kept
FetchTrimmed ==
    /\ Running /\ pc = "get"
    /\ \E p \in Provided, d \in FetchSeconds :
          /\ positions' = IF Len(positions) >= 2
                             THEN Append(Tail(positions), p)
                             ELSE Append(positions, p)
          /\ now' = now + d
    /\ pc' = "check"
    /\ UNCHANGED << config, t0, sleepTime, renders, epd, image, sig, probe >>

\* requests.get, r.json(), float(...), positions.append((lat, lon))
Fetch ==
    /\ Running /\ pc = "get"
    /\ \E p \in Provided, d \in FetchSeconds :
          /\ positions' = Append(positions, p)
          /\ now' = now + d
    /\ pc' = "check"
    /\ UNCHANGED << config, t0, sleepTime, renders, epd, image, sig, probe >>

\* requests.get, r.json() or float(...) raises: nothing catches it
FetchFails ==
    /\ Running /\ pc = "get"
    /\ \E d \in FetchSeconds : now' = now + d
    /\ pc' = "crashed"
    /\ UNCHANGED << config, positions, t0, sleepTime, renders, epd, image,
                    sig, probe >>

\* a mutant of refreshDue: every DISPLAY_REFRESH_INTERVAL-th fetch, not the
\* first
refreshDueAtMultiple(n) == n % DISPLAY_REFRESH_INTERVAL = 0

\* DISPLAY_REFRESH_INTERVAL == 1 or len(positions) % DISPLAY_REFRESH_INTERVAL == 1
refreshDue(n) ==
    DISPLAY_REFRESH_INTERVAL = 1 \/ n % DISPLAY_REFRESH_INTERVAL = 1

Decide ==
    /\ Running /\ pc = "check"
    /\ pc' = IF refreshDue(Len(positions)) THEN "init" ELSE "t1"
    /\ UNCHANGED << config, positions, now, t0, sleepTime, renders, epd,
                    image, sig, probe >>

\* epd.init()
EpdInit ==
    /\ Running /\ pc = "init"
    /\ gpio' = module_init(gpio)
    /\ pc' = "draw"
    /\ UNCHANGED << config, positions, now, t0, sleepTime, renders,
                    doubleCleanup, image, sig, probe >>

\* (imageBlack, imageRed) = display.drawISS(positions)
Draw ==
    /\ Running /\ pc = "draw"
    /\ DATA_INTERVAL # 0
    /\ \E h \in Hours : frame' = drawISS(positions, h) /\ hour' = h
    /\ framed' = Len(positions)
    /\ pc' = "display"
    /\ UNCHANGED << config, positions, now, t0, sleepTime, renders, epd, sig,
                    probe >>

\* display.drawISS(positions) with DATA_INTERVAL = 0: the division of
\* maxPositionsToDraw raises ZeroDivisionError, and nothing catches it
DrawDividesByZero ==
    /\ Running /\ pc = "draw"
    /\ DATA_INTERVAL = 0
    /\ pc' = "raised"
    /\ UNCHANGED << config, positions, now, t0, sleepTime, renders, epd,
                    image, sig, probe >>

\* epd.init(), drawISS (Image.open), epd.display(...) or epd.sleep() raises:
\* nothing catches it
RenderFails ==
    /\ Running /\ pc \in {"init", "draw", "display", "epdsleep"}
    /\ pc' = "raised"
    /\ UNCHANGED << config, positions, now, t0, sleepTime, renders, epd,
                    image, sig, probe >>

\* epd.display(...), time.sleep(2)
EpdDisplay ==
    /\ Running /\ pc = "display"
    /\ \E d \in RefreshSeconds : now' = now + d + 2
    /\ renders' = renders \cup {Len(positions)}
    /\ pc' = "epdsleep"
    /\ UNCHANGED << config, positions, t0, sleepTime, epd, image, sig, probe >>

\* a mutant of EpdSleep: the display is left as it is
EpdSleepSkipped ==
    /\ Running /\ pc = "epdsleep"
    /\ pc' = "t1"
    /\ UNCHANGED << config, positions, now, t0, sleepTime, renders, epd,
                    image, sig, probe >>

\* epd.sleep(), which calls epdconfig.module_exit()
EpdSleep ==
    /\ Running /\ pc = "epdsleep"
    /\ gpio' = module_exit(gpio)
    /\ doubleCleanup' = (doubleCleanup \/ cleanupTwice(gpio))
    /\ pc' = "t1"
    /\ UNCHANGED << config, positions, now, t0, sleepTime, renders, image,
                    sig, probe >>

\* a mutant of sleepFor: no lower limit of 0
sleepForNoMax(elapsed) == DATA_INTERVAL - elapsed

\* max(DATA_INTERVAL - (t1 - t0), 0)
sleepFor(elapsed) == Max(DATA_INTERVAL - elapsed, 0)

\* t1 = time.time(); sleepTime = ...
ComputeSleep ==
    /\ Running /\ pc = "t1"
    /\ sleepTime' = sleepFor(now - t0)
    /\ pc' = "sleep"
    /\ UNCHANGED << config, positions, now, t0, renders, epd, image, sig,
                    probe >>

\* time.sleep(sleepTime)
Sleep ==
    /\ Running /\ pc = "sleep"
    /\ now' = now + sleepTime
    /\ pc' = "t0"
    /\ UNCHANGED << config, positions, t0, sleepTime, renders, epd, image,
                    sig, probe >>

---------------------------------------------------------------------------
(* ctrl_c_handler.  The run gets one SIGINT, at any point of main; Python  *)
(* runs the handler in the main thread, so main stands still meanwhile and *)
(* exit(0) ends the process.                                               *)

Sigint ==
    /\ hpc = "none" /\ pc \notin {"crashed", "raised"}
    /\ hpc' = "goodbye"
    /\ UNCHANGED << config, loop, epd, image, shutdown, probe >>

\* myPrint('Goodbye!')
HGoodbye ==
    /\ hpc = "goodbye"
    /\ shutdown' = Append(shutdown, "Goodbye!")
    /\ hpc' = "module_init"
    /\ UNCHANGED << config, loop, epd, image, probe >>

\* a mutant of HModuleInit: the module is not set up again
HModuleInitSkipped ==
    /\ hpc = "module_init"
    /\ shutdown' = Append(shutdown, "module_init")
    /\ hpc' = "module_exit"
    /\ UNCHANGED << config, loop, epd, image, probe >>

\* epdconfig.module_init()
HModuleInit ==
    /\ hpc = "module_init"
    /\ gpio' = module_init(gpio)
    /\ shutdown' = Append(shutdown, "module_init")
    /\ hpc' = "module_exit"
    /\ UNCHANGED << config, loop, doubleCleanup, image, probe >>

\* a mutant of HModuleExit: the module is left as it is
HModuleExitSkipped ==
    /\ hpc = "module_exit"
    /\ shutdown' = Append(shutdown, "module_exit")
    /\ hpc' = "reminder"
    /\ UNCHANGED << config, loop, epd, image, probe >>

\* epdconfig.module_exit()
HModuleExit ==
    /\ hpc = "module_exit"
    /\ gpio' = module_exit(gpio)
    /\ doubleCleanup' = (doubleCleanup \/ cleanupTwice(gpio))
    /\ shutdown' = Append(shutdown, "module_exit")
    /\ hpc' = "reminder"
    /\ UNCHANGED << config, loop, image, probe >>

\* myPrint("Remeber to clear the display ...")
HReminder ==
    /\ hpc = "reminder"
    /\ shutdown' = Append(shutdown, "reminder")
    /\ hpc' = "exit"
    /\ UNCHANGED << config, loop, epd, image, probe >>

\* exit(0)
HExit ==
    /\ hpc = "exit"
    /\ shutdown' = Append(shutdown, "exit")
    /\ hpc' = "done"
    /\ UNCHANGED << config, loop, epd, image, probe >>

InitIdle ==
    /\ pc = "t0" /\ positions = << >> /\ now = 0 /\ t0 = 0 /\ sleepTime = 0
    /\ renders = {}
    /\ gpio = "unset" /\ doubleCleanup = FALSE
    /\ frame = NoFrame /\ framed = -1 /\ hour = -1
    /\ hpc = "none" /\ shutdown = << >>
    /\ lat = 0 /\ lon = 0 /\ xy = << >> /\ prev = << >>

Init ==
    /\ DATA_INTERVAL \in LoopIntervals \cup BadIntervals
    /\ BIG_DOT_INTERVAL = 900
    /\ DISPLAY_REFRESH_INTERVAL \in 1..MaxStride
    /\ MAX_ORBIT_TRACES = LoopOrbits[DATA_INTERVAL]
    /\ InitIdle

Next ==
    \/ StartCycle \/ Fetch \/ FetchFails \/ Decide
    \/ EpdInit \/ Draw \/ DrawDividesByZero \/ RenderFails
    \/ EpdDisplay \/ EpdSleep
    \/ ComputeSleep \/ Sleep
    \/ Sigint \/ HGoodbye \/ HModuleInit \/ HModuleExit \/ HReminder \/ HExit

Spec == Init /\ [][Next]_vars

\* ctrl_c_handler is straight-line code in the main thread: once entered it
\* runs to its exit(0)
SpecExit ==
    Spec /\ WF_vars(HGoodbye \/ HModuleInit \/ HModuleExit \/ HReminder \/ HExit)

---------------------------------------------------------------------------
(* drawISS alone: a list that grows as main's does, drawn at any length,   *)
(* under each of DrawSettings                                              *)

AppendPosition ==
    /\ pc = "drawISS"
    /\ Len(positions) < MaxDrawn
    /\ \E p \in Provided : positions' = Append(positions, p)
    /\ UNCHANGED << config, pc, now, t0, sleepTime, renders, epd, image, sig,
                    probe >>

DrawFrame ==
    /\ pc = "drawISS"
    /\ \E h \in Hours : frame' = drawISS(positions, h) /\ hour' = h
    /\ framed' = Len(positions)
    /\ prev' = IF framed = Len(positions) THEN << hour >> ELSE << >>
    /\ UNCHANGED << config, loop, epd, sig, lat, lon, xy >>

InitDraw ==
    /\ \E c \in DrawSettings :
          /\ DATA_INTERVAL = c.data
          /\ BIG_DOT_INTERVAL = c.big
          /\ MAX_ORBIT_TRACES = c.orbits
    /\ DISPLAY_REFRESH_INTERVAL = 3
    /\ pc = "drawISS" /\ positions = << >> /\ now = 0 /\ t0 = 0
    /\ sleepTime = 0 /\ renders = {}
    /\ gpio = "unset" /\ doubleCleanup = FALSE
    /\ frame = NoFrame /\ framed = -1 /\ hour = -1
    /\ hpc = "none" /\ shutdown = << >>
    /\ lat = 0 /\ lon = 0 /\ xy = << >> /\ prev = << >>

NextDraw == AppendPosition \/ DrawFrame

SpecDraw == InitDraw /\ [][NextDraw]_vars

---------------------------------------------------------------------------
(* getXYFromLonLat alone: every position of the grid of whole degrees, and *)
(* from each the positions up to MaxStep degrees east and north of it      *)

Project ==
    /\ pc = "getXY" /\ xy = << >>
    /\ xy' = getXYFromLonLat(lat, lon)
    /\ UNCHANGED << config, loop, epd, image, sig, lat, lon, prev >>

MoveEast ==
    /\ pc = "getXY" /\ xy # << >> /\ prev = << >>
    /\ \E d \in 1..MaxStep :
          /\ lon + d <= max_lon
          /\ lon' = lon + d
          /\ xy' = getXYFromLonLat(lat, lon + d)
    /\ prev' = << lat, lon, xy >>
    /\ UNCHANGED << config, loop, epd, image, sig, lat >>

MoveNorth ==
    /\ pc = "getXY" /\ xy # << >> /\ prev = << >>
    /\ \E d \in 1..MaxStep :
          /\ lat + d <= max_lat
          /\ lat' = lat + d
          /\ xy' = getXYFromLonLat(lat + d, lon)
    /\ prev' = << lat, lon, xy >>
    /\ UNCHANGED << config, loop, epd, image, sig, lon >>

InitProject ==
    /\ DATA_INTERVAL = 30 /\ BIG_DOT_INTERVAL = 900
    /\ DISPLAY_REFRESH_INTERVAL = 3 /\ MAX_ORBIT_TRACES = << 1, 1 >>
    /\ pc = "getXY" /\ positions = << >> /\ now = 0 /\ t0 = 0
    /\ sleepTime = 0 /\ renders = {}
    /\ gpio = "unset" /\ doubleCleanup = FALSE
    /\ frame = NoFrame /\ framed = -1 /\ hour = -1
    /\ hpc = "none" /\ shutdown = << >>
    /\ lat \in Lats /\ lon \in Lons /\ xy = << >> /\ prev = << >>

NextProject == Project \/ MoveEast \/ MoveNorth

SpecProject == InitProject /\ [][NextProject]_vars

---------------------------------------------------------------------------
(* What the claims are stated with *)

\* a / b rounded to the nearest integer, a tie to the even one (a >= 0, b > 0)
RoundNearest(a, b) ==
    LET q == a \div b
        r == a % b
    IN  IF 2 * r < b THEN q
        ELSE IF 2 * r > b THEN q + 1
        ELSE IF q % 2 = 0 THEN q ELSE q + 1

\* visible_count = max_orbit_units * 5400 / sampling_interval, as the
\* fraction VisibleNum / VisibleDen
VisibleNum == MAX_ORBIT_TRACES[1] * ORBIT_SECONDS

VisibleDen == MAX_ORBIT_TRACES[2] * DATA_INTERVAL

VisibleIsWhole == VisibleNum % VisibleDen = 0

\* the indices a frame's marks were drawn for, in the order drawn
DrawnIndices == [k \in 1..Len(frame.red) |-> frame.red[k].i]

---------------------------------------------------------------------------
(* Spec: the loop of main *)

\* the claim's condition on the number n of samples stored
RefreshCycle(n) ==
    n % DISPLAY_REFRESH_INTERVAL = 1 % DISPLAY_REFRESH_INTERVAL

\* C1: the display is updated in a cycle exactly when the number n of
\* samples stored after its append has n mod stride = 1 mod stride: once the
\* cycle is through its refresh decision the updates made so far are those
\* of exactly these n, and a refresh is under way only at such an n.
C1_RefreshEveryStride ==
    LET n   == Len(positions)
        due == {m \in 1..n : RefreshCycle(m)}
    IN  /\ pc \in {"t0", "get", "crashed", "epdsleep", "t1", "sleep"}
            => renders = due
        /\ pc \in {"init", "draw", "display"}
            => RefreshCycle(n) /\ renders = due \ {n}

\* stride 3: updated at the first and at the fourth sample, not between
C1_Witness ==
    /\ pc = "sleep" /\ DISPLAY_REFRESH_INTERVAL = 3
    /\ Len(positions) = 4 /\ renders = {1, 4}

\* C2: t0 is the time the cycle starts at, before the fetch; the wait is
\* max(sampling_interval - elapsed, 0) with elapsed counted from t0 to after
\* the refresh, never negative; and a cycle whose work took less than
\* sampling_interval is followed by one that starts sampling_interval after
\* it started.
C2_DriftCompensated ==
    [][/\ pc' = "get" => t0' = now'
       /\ pc' = "sleep" =>
             /\ sleepTime' = Max(DATA_INTERVAL - (now' - t0'), 0)
             /\ sleepTime' >= 0
       /\ (pc = "sleep" /\ pc' = "t0") =>
             /\ now' = now + sleepTime
             /\ (now - t0 < DATA_INTERVAL => now' = t0 + DATA_INTERVAL)
      ]_vars

\* a cycle with a refresh that took less than the interval has been waited
\* out: the next one starts a whole interval after it
C2_Witness ==
    /\ pc = "t0" /\ Len(positions) = 1 /\ renders = {1}
    /\ 0 < sleepTime /\ sleepTime < DATA_INTERVAL
    /\ now = t0 + DATA_INTERVAL

\* C3: wherever in the loop SIGINT arrives, the handler sets the module up,
\* releases it once (never a module that is not set up), prints the reminder
\* after that and exits; and from the delivery of the signal on main does
\* nothing more.
C3_ShutdownOnce ==
    [][/\ hpc' = "done" =>
             /\ shutdown' = << "Goodbye!", "module_init", "module_exit",
                               "reminder", "exit" >>
             /\ gpio' = "cleaned"
             /\ ~doubleCleanup'
       /\ hpc # "none" => UNCHANGED << loop, image >>
      ]_vars

\* the process has exited on a SIGINT that came after epd.sleep() had
\* already released the module in this cycle
C3_Witness ==
    /\ hpc = "done" /\ pc \in {"t1", "sleep"}
    /\ Len(positions) \in renders
    /\ gpio = "cleaned"

---------------------------------------------------------------------------
(* SpecDraw: drawISS *)

C5_NewestAlwaysDrawn ==
    framed >= 1 =>
        /\ Len(frame.red) >= 1
        /\ frame.red[1].i = framed - 1
        /\ frame.red[1].kind = "iss"

\* C6: every position of the window is drawn once; the newest as the ISS,
\* whatever its index; any other, at index i of the whole list, as the big
\* dot (radius 3) if i mod stride = 0 and as the small dot (radius 1) if
\* not: its mark is decided by i alone.
C6_MarkByAbsoluteIndex ==
    framed >= 0 =>
        LET stride == bigDotStride(BIG_DOT_INTERVAL, DATA_INTERVAL) IN
        \A k \in 1..Len(frame.red) :
            LET m == frame.red[k] IN
            /\ \A j \in 1..Len(frame.red) : j # k => frame.red[j].i # m.i
            /\ << m.x, m.y >> = getXYFromLonLat(positions[m.i + 1][1],
                                                positions[m.i + 1][2])
            /\ m.i = framed - 1 => m.kind = "iss"
            /\ (m.i # framed - 1 /\ m.i % stride = 0)
                  => m.kind = "big" /\ m.s = BIG_DOT
            /\ (m.i # framed - 1 /\ m.i % stride # 0)
                  => m.kind = "small" /\ m.s = SMALL_DOT

\* stride 2 and a window of 3 over five positions: the newest, at index 4,
\* is the ISS although 4 mod 2 = 0; index 3 is small and index 2 big
C6_Witness ==
    /\ framed = 5 /\ Len(frame.red) = 3
    /\ bigDotStride(BIG_DOT_INTERVAL, DATA_INTERVAL) = 2
    /\ frame.red[1].i = 4 /\ frame.red[1].kind = "iss"
    /\ frame.red[2].i = 3 /\ frame.red[2].kind = "small"
    /\ frame.red[3].i = 2 /\ frame.red[3].kind = "big"

\* C7 as stated: the stride is max(round(major_marker_interval /
\* sampling_interval), 1), the quotient rounded to the nearest integer
C7_StrideRounded ==
    framed >= 0 =>
        bigDotStride(BIG_DOT_INTERVAL, DATA_INTERVAL)
            = Max(RoundNearest(BIG_DOT_INTERVAL, DATA_INTERVAL), 1)

\* C7: the stride is max(floor(major_marker_interval / sampling_interval),
\* 1): the quotient is truncated, not rounded
C7_StrideTruncated ==
    framed >= 0 =>
        bigDotStride(BIG_DOT_INTERVAL, DATA_INTERVAL)
            = Max(BIG_DOT_INTERVAL \div DATA_INTERVAL, 1)

\* a frame drawn with a quotient that rounds up: 900 / 35 = 25.7 gives 25
C7_Witness ==
    /\ framed >= 1
    /\ 2 * (BIG_DOT_INTERVAL % DATA_INTERVAL) > DATA_INTERVAL
    /\ BIG_DOT_INTERVAL \div DATA_INTERVAL >= 1

---------------------------------------------------------------------------
(* SpecProject: getXYFromLonLat *)

\* C8: the pixel of every valid position is on the map: 0 <= x < map_width
\* and 0 <= y < map_height
C8_PixelOnMap ==
    xy # << >> =>
        /\ 0 <= xy[1] /\ xy[1] < map_width
        /\ 0 <= xy[2] /\ xy[2] < map_height

\* C9 as stated: x = round((longitude + 180) * map_width / 360) and
\* y = round(map_height - (latitude + 90) * map_height / 180)
C9_PixelRounded ==
    xy # << >> =>
        /\ xy[1] = RoundNearest((lon + max_lon) * map_width, 2 * max_lon)
        /\ xy[2] = RoundNearest(2 * max_lat * map_height
                                  - (lat + max_lat) * map_height, 2 * max_lat)

\* the longitudes at which (longitude + 180) * map_width / 360 is a whole
\* number that the product of doubles stays just below
ShortLons == {-105, -30, -15, 105, 120, 135, 150, 165}

\* C9: x and y are truncated, not rounded: y is the floor of
\* map_height - (latitude + 90) * map_height / 180, and x the floor of
\* (longitude + 180) * map_width / 360, less 1 at the longitudes of ShortLons
C9_PixelTruncated ==
    xy # << >> =>
        /\ xy[1] = ((lon + max_lon) * map_width) \div (2 * max_lon)
                     - (IF lon \in ShortLons THEN 1 ELSE 0)
        /\ xy[2] = (2 * max_lat * map_height - (lat + max_lat) * map_height)
                     \div (2 * max_lat)

\* (-89, -105): x is 54 where the exact 55.0 rounds and floors to 55, y is
\* 179 where 179.99 rounds to 180
C9_Witness == xy = << 54, 179 >> /\ lat = -89 /\ lon = -105

\* C10 as stated: at one latitude a larger longitude gives a strictly
\* larger x; at one longitude a larger latitude gives a strictly smaller y
C10_StrictlyMonotone ==
    prev # << >> =>
        /\ (lat = prev[1] /\ lon > prev[2]) => xy[1] > prev[3][1]
        /\ (lon = prev[2] /\ lat > prev[1]) => xy[2] < prev[3][2]

\* C10: at one latitude a larger longitude gives an x that is not smaller
\* (361 longitudes share 265 columns); at one longitude a larger latitude
\* gives a strictly smaller y
C10_Monotone ==
    prev # << >> =>
        /\ (lat = prev[1] /\ lon > prev[2]) => xy[1] >= prev[3][1]
        /\ (lon = prev[2] /\ lat > prev[1]) => xy[2] < prev[3][2]

\* one degree further east in the same column, and one degree further
\* north a row higher
C10_Witness ==
    /\ prev # << >>
    /\ \/ lat = prev[1] /\ lon = prev[2] + 1 /\ xy[1] = prev[3][1]
       \/ lon = prev[2] /\ lat = prev[1] + 1 /\ xy[2] = prev[3][2] - 1

---------------------------------------------------------------------------
(* Spec: what goes wrong in main *)

\* C11: a fetch that fails leaves the list and the display as they are and
\* main goes on to the wait of the cycle, and from there to the next cycle
C11_FailedFetchSkipsCycle ==
    [][FetchFails =>
          /\ pc' = "t1"
          /\ positions' = positions
          /\ renders' = renders
      ]_vars

\* C12: a call of the refresh that fails leaves the list as it is, with the
\* position of this cycle in it, and main goes on to the wait of the cycle
C12_FailedRenderContinues ==
    [][RenderFails =>
          /\ pc' = "t1"
          /\ positions' = positions
      ]_vars

\* C13: every position of the list has its latitude in [-90, 90] and its
\* longitude in [-180, 180], whatever the provider answers
C13_PositionsInRange ==
    \A k \in 1..Len(positions) :
        /\ -max_lat <= positions[k][1] /\ positions[k][1] <= max_lat
        /\ -max_lon <= positions[k][2] /\ positions[k][2] <= max_lon

\* C14: the list of positions only grows at its end: the fetch of a cycle
\* appends one element to it, and no other step of main, drawISS among
\* them, changes it; the positions no longer drawn stay in it.
C14_AppendOnly ==
    [][IF pc = "get" /\ pc' = "check"
       THEN /\ Len(positions') = Len(positions) + 1
            /\ SubSeq(positions', 1, Len(positions)) = positions
       ELSE positions' = positions
      ]_vars

\* four positions fetched and kept, of which the last refresh drew fewer
C14_Witness ==
    /\ pc = "sleep" /\ Len(positions) = 4
    /\ framed = 4 /\ Len(frame.red) < 4

\* C15: the list never holds more positions than the visible window,
\* visible_count rounded up
C15_BoundedHistory ==
    DATA_INTERVAL > 0 => Len(positions) * VisibleDen < VisibleNum + VisibleDen

\* C16: with DATA_INTERVAL <= 0 main stops before its first fetch: it
\* never holds a position, and it does not fail later
C16_BadIntervalStopsAtStart ==
    DATA_INTERVAL <= 0 => positions = << >> /\ pc # "raised"

---------------------------------------------------------------------------
(* SpecDraw: drawISS called again *)

\* C17 as stated: a call of drawISS with the list of the call before it
\* returns the two images that call returned, whatever the time
C17_SameImages ==
    [][(framed = Len(positions) /\ framed' = framed) => frame' = frame]_vars

\* C17: a call of drawISS with the list of the call before it returns the
\* red image (the trajectory) that call returned; the black image (the map)
\* is the same exactly if the hours of the two calls are both even or both
\* odd, the map being inverted in the even hours.
C17_SameTrajectory ==
    [][(framed = Len(positions) /\ framed' = framed) =>
          /\ frame'.red = frame.red
          /\ frame'.black = frame.black <=> hour' % 2 = hour % 2
      ]_vars

\* three positions drawn at an odd hour and again at an even one
C17_Witness ==
    /\ framed = 3 /\ Len(positions) = 3
    /\ prev # << >> /\ prev[1] % 2 = 1 /\ hour % 2 = 0
    /\ frame.black.inverted /\ Len(frame.red) >= 1

---------------------------------------------------------------------------
(* Spec: the order of a cycle, and the display at the end *)

\* the steps of main that follow one another
CycleOrder ==
    {<< "t0", "get" >>, << "get", "check" >>, << "check", "init" >>,
     << "check", "t1" >>, << "init", "draw" >>, << "draw", "display" >>,
     << "display", "epdsleep" >>, << "epdsleep", "t1" >>, << "t1", "sleep" >>,
     << "sleep", "t0" >>}

\* C18: a cycle of main is the fetch with its append, then, in a cycle that
\* refreshes only, epd.init, drawISS, epd.display and epd.sleep in this
\* order, then the wait, unless a call raises: the display is updated only
\* on a module that is set up, a position is fetched only where the cycle
\* starts, never from epd.init to epd.sleep, and while main waits after a
\* refresh the module is released.
C18_CycleInOrder ==
    [][/\ (pc' # pc /\ pc' \notin {"crashed", "raised"})
             => << pc, pc' >> \in CycleOrder
       /\ (pc = "check" /\ pc' = "init") => RefreshCycle(Len(positions))
       /\ (pc = "check" /\ pc' = "t1") => ~RefreshCycle(Len(positions))
       /\ positions' # positions => (pc = "get" /\ gpio # "setup")
       /\ renders' # renders => (pc = "display" /\ gpio = "setup")
       /\ (hpc' = "none" /\ pc' \in {"t1", "sleep"}
              /\ Len(positions') \in renders') => gpio' = "cleaned"
      ]_vars

\* main waits after the refresh of its fourth cycle, the display asleep
C18_Witness ==
    /\ hpc = "none" /\ pc = "sleep"
    /\ Len(positions) = 4 /\ 4 \in renders /\ framed = 4
    /\ gpio = "cleaned"

\* C19: whatever the module's state when SIGINT arrives, the handler sets
\* it up and then shuts it off: once module_exit() has run the module is
\* off, set up when it was shut off, and stays off; and the handler, once
\* entered, gets to its exit with the module off.
C19_PoweredOffAtExit ==
    /\ [][/\ (hpc = "module_exit" /\ hpc' # hpc)
                 => gpio = "setup" /\ gpio' = "cleaned"
          /\ hpc' \in {"reminder", "exit", "done"} => gpio' = "cleaned"
         ]_vars
    /\ (hpc = "goodbye") ~> (hpc = "done" /\ gpio = "cleaned")

\* the process has exited on a SIGINT that came between epd.init() and
\* epd.sleep(), the module set up and the refresh under way
C19_Witness ==
    /\ hpc = "done" /\ pc \in {"draw", "display", "epdsleep"}
    /\ gpio = "cleaned" /\ ~doubleCleanup

===========================================================================
